---------------------------- MODULE Spec2Model ----------------------------
(***************************************************************************)
(* Notification-derivation engine of the medication backend:               *)
(*   Backend/medications/repository.py   (Event Projector)                 *)
(*   Backend/notifications/service.py    (Runout Estimator, the three      *)
(*                                        passes, Advice Cache, merge/sort)*)
(*   Backend/storage/events.py           (calendar-event cache)            *)
(*   Backend/data/utils.py               (medication store operations)     *)
(*   Backend/calendar/cal_api.py         (live calendar fetch)             *)
(*                                                                         *)
(* Time is counted in minutes; a naive local datetime is the number of     *)
(* minutes since midnight of day 0.  A JSON value that may be absent or    *)
(* of the wrong type is a record [k, v]: k says what the JSON holds.       *)
(***************************************************************************)
EXTENDS Integers, Sequences, FiniteSets, TLC

VARIABLES
    clock,        \* the wall clock, read by _now() and date.today()
    store,        \* personal_medication.json: the "medications" list of the user
    storeOthers,  \* the same file: the "medications" list of another user
    envCalendarId,\* os.getenv("EVENTS_CALENDAR_ID") ("" when unset)
    envBaseUrl,   \* os.getenv("OPENAI_BASE_URL") ("" when unset)
    liveEvents,   \* what the calendar service holds for that calendar
    calCache,     \* events_cache.json: calendar id -> event list
    adviceCache,  \* notifications_advice_cache.json: key -> advice
    llmCalls,     \* advice-generation calls made so far, per advice-cache key
    adviceLog,    \* one entry per finished advice computation, in order
    fs,           \* the files as files: whether each parses, temp files, and
                  \* the store requests in progress
    silent,       \* the collaborators that accept a request and never answer
    inv           \* the get_notifications invocations (one per request thread)

vars == <<clock, store, storeOthers, envCalendarId, envBaseUrl, liveEvents, calCache,
          adviceCache, llmCalls, adviceLog, fs, silent, inv>>

-----------------------------------------------------------------------------
(* Bounds of the model *)

MaxQty == 8
MaxDose == 2
MaxTimes == 2
MaxRuns == 2

(* Program constants *)

ReminderWindowMin == 30
LowStockDays == 7
EventWindowHours == 8
RecentHours == 12
RunoutHour == 8
DefaultHour == 8
DoseMinutes == 10
DailyStepHours == 24
WeeklyStepHours == 168

HourMin == 60
DayMin == 24 * HourMin

Max(a, b) == IF a >= b THEN a ELSE b
Min(a, b) == IF a <= b THEN a ELSE b

(* datetime.date() and datetime.replace(hour=h, minute=0) on minute counts *)
DateOf(t) == t \div DayMin
AtHour(day, h) == day * DayMin + h * HourMin

(* JSON values *)
Num(n) == [k |-> "num", v |-> n]
Bad == [k |-> "bad", v |-> 0]          \* present, of a type or text the code cannot use
Missing == [k |-> "missing", v |-> 0]  \* key absent (or null)

-----------------------------------------------------------------------------
(* Event Projector: repository.py *)

(* A time-of-day text is [k, hh]: k = "hhmm" when the text before ":" is the
   integer hh, "bad" when it is not an integer (or the value is a truthy
   non-string), "missing" when the value is None or "".
   parse_time_to_hour: int((val or "0").split(":")[0]) clamped to 0..23, and 8
   on any exception. *)
HHMM(h) == [k |-> "hhmm", hh |-> h]
BadTime == [k |-> "bad", hh |-> 0]
NoTime == [k |-> "missing", hh |-> 0]

parse_time_to_hour(val) ==
    IF val.k = "hhmm" THEN Max(0, Min(23, val.hh))
    ELSE IF val.k = "missing" THEN 0
    ELSE DefaultHour

(* A title that leaves the strength out *)
TitleOfNameOnly(m) == m.drug_name

(* f"{drug_name} {strength}".strip() for components without outer blanks *)
TitleOf(m) ==
    IF m.strength = "" THEN m.drug_name
    ELSE IF m.drug_name = "" THEN m.strength
    ELSE m.drug_name \o " " \o m.strength

(* lines 221-225: occurrences = max(1, int(qty_left)), 1 when int() raises;
   a missing key reads as 1 *)
Occurrences(m) ==
    IF m.quantity_left.k = "num" THEN Max(1, m.quantity_left.v) ELSE 1

(* An anchor read from the first listed time whatever the schedule type *)
TimeHourFromTimes(schedule) ==
    IF Len(schedule.times) > 0 THEN parse_time_to_hour(schedule.times[1])
    ELSE DefaultHour

(* lines 227-240: anchor hour and step of a schedule dict *)
TimeHour(schedule) ==
    IF schedule.type = "daily"
    THEN IF Len(schedule.times) > 0 THEN parse_time_to_hour(schedule.times[1])
         ELSE DefaultHour
    ELSE IF schedule.type = "weekly"
    THEN parse_time_to_hour(IF schedule.time.k = "missing" THEN HHMM(DefaultHour)
                            ELSE schedule.time)
    ELSE DefaultHour

HourInterval(schedule) ==
    IF schedule.type = "weekly" THEN WeeklyStepHours ELSE DailyStepHours

(* lines 242-249: start_date parsed with strptime, today when absent or bad *)
StartDay(m, today) ==
    IF m.start_date.k = "num" THEN m.start_date.v ELSE today

(* m.get("schedule") or {} : an absent schedule reads as the empty dict, whose
   type defaults to "daily" and whose times are empty *)
EmptySchedule == [type |-> "daily", times |-> <<>>, time |-> NoTime]

ScheduleOf(m) == IF m.schedule.type = "missing" THEN EmptySchedule ELSE m.schedule

(* Whether the loop body of get_medication_events raises on item m: m.get on a
   non-dict item, schedule.get on a truthy non-dict schedule.  Nothing in the
   function catches it. *)
ProjectorRaises(m) == m.shape # "dict" \/ m.schedule.type = "badtype"

EventId(m, i, start) ==
    "med-" \o m.drug_name \o "-" \o ToString(i) \o "-" \o ToString(start)

(* lines 251-270: the occurrences of one medication *)
MedEvents(m, today) ==
    LET sch == ScheduleOf(m)
        base == AtHour(StartDay(m, today), TimeHour(sch))
        title == TitleOf(m)
    IN [i \in 1..Occurrences(m) |->
          LET start == base + (i - 1) * HourInterval(sch) * HourMin
          IN [id |-> EventId(m, i - 1, start),
              title |-> IF title = "" THEN "Medication" ELSE title,
              start |-> [k |-> "dict", date_time |-> [k |-> "iso", v |-> start]],
              end |-> [k |-> "dict",
                       date_time |-> [k |-> "iso", v |-> start + DoseMinutes]]]]

RECURSIVE ConcatEvents(_, _)
ConcatEvents(meds, today) ==
    IF meds = <<>> THEN <<>>
    ELSE MedEvents(Head(meds), today) \o ConcatEvents(Tail(meds), today)

(* get_medication_events: [raised, events] *)
get_medication_events(meds, today) ==
    IF \E i \in 1..Len(meds) : ProjectorRaises(meds[i])
    THEN [raised |-> TRUE, events |-> <<>>]
    ELSE [raised |-> FALSE, events |-> ConcatEvents(meds, today)]

-----------------------------------------------------------------------------
(* Runout Estimator: service.py *)

(* _intakes_left: max(0, int(float(q) // max(1.0, float(dose or 1)))), and 0
   when a conversion raises.  The caller reads a missing quantity_left as 0 and
   a missing dose_per_intake as 1 (lines 97-98). *)
_intakes_left(quantity_left, dose_per_intake) ==
    IF quantity_left.k = "bad" \/ dose_per_intake.k = "bad" THEN 0
    ELSE LET q == IF quantity_left.k = "num" THEN quantity_left.v ELSE 0
             d0 == IF dose_per_intake.k = "num" THEN dose_per_intake.v ELSE 1
             d == Max(1, IF d0 = 0 THEN 1 ELSE d0)
         IN Max(0, q \div d)

(* _per_day_intakes as the fraction num/den: len(times) (at least 1) a day for
   "daily", that number over 7 for "weekly", 1 otherwise *)
_per_day_intakes(schedule) ==
    LET n == Max(1, IF Len(schedule.times) > 0 THEN Len(schedule.times) ELSE 1)
    IN IF schedule.type = "daily" THEN [num |-> n, den |-> 1]
       ELSE IF schedule.type = "weekly" THEN [num |-> n, den |-> 7]
       ELSE [num |-> 1, den |-> 1]

(* lines 105-106: days_left_float = intakes_remaining / per_day;
   int(x) if x.is_integer() else int(x) + 1.  The float quotient is integral
   exactly when the rational one is, for every intake count below 2000 and
   every rate k or k/7 with k <= 7. *)
DaysLeftExtraDay(intakes, rate) == (intakes * rate.den) \div rate.num + 1

DaysLeft(intakes, rate) ==
    LET p == intakes * rate.den
    IN IF p % rate.num = 0 THEN p \div rate.num ELSE p \div rate.num + 1

(* Whether _estimate_runout_date raises on m (caught by the caller's loop):
   m.get on a non-dict item, (schedule or {}).get on a non-dict schedule *)
EstimatorRaises(m) == m.shape # "dict" \/ m.schedule.type = "badtype"

(* _estimate_runout_date: (runout_date, days_left); per_day <= 0 never occurs
   for the rates above, the guard of line 103 is kept for the record *)
_estimate_runout_date(m, base_date) ==
    LET intakes_remaining == _intakes_left(m.quantity_left, m.dose_per_intake)
        per_day == _per_day_intakes(ScheduleOf(m))
        days_left == DaysLeft(intakes_remaining, per_day)
    IN IF per_day.num <= 0 THEN [none |-> TRUE, runout_date |-> 0, days_left |-> 0]
       ELSE [none |-> FALSE,
             runout_date |-> AtHour(DateOf(base_date) + days_left, RunoutHour),
             days_left |-> Max(0, days_left)]

-----------------------------------------------------------------------------
(* Notification Engine: service.py *)

(* _parse_iso: None for an absent or unparseable text.  _to_local_naive leaves
   a naive datetime as it is; every datetime of the model is naive local. *)
None == [none |-> TRUE, t |-> 0]
Some(t) == [none |-> FALSE, t |-> t]

_parse_iso(dt_str) == IF dt_str.k = "iso" THEN Some(dt_str.v) ELSE None

_to_local_naive(dt) == dt

(* (ev.get("start") or {}).get("date_time"), for a start that is a dict or absent *)
StartText(ev) == IF ev.start.k = "dict" THEN ev.start.date_time ELSE Missing

(* strftime('%H:%M') *)
Pad2(n) == IF n < 10 THEN "0" \o ToString(n) ELSE ToString(n)
HHMMText(t) == Pad2((t % DayMin) \div HourMin) \o ":" \o Pad2(t % HourMin)

(* lines 133-150 *)
ReminderOf(ev, start_dt) ==
    [id |-> "reminder:" \o (IF ev.id # "" THEN ev.id ELSE ev.title) \o ":"
              \o ToString(start_dt),
     category |-> "reminder",
     title |-> "Upcoming dose",
     message |-> "It's almost time to take " \o ev.title \o " at "
                   \o HHMMText(start_dt) \o ".",
     due_at |-> start_dt,
     color |-> "blue",
     metadata |-> [medicationName |-> ev.title, eventId |-> ev.id,
                   startAt |-> start_dt]]

(* line 131: the window test of the reminder pass *)
InReminderWindowOpenEnd(start_dt, now) ==
    ~(start_dt < now \/ start_dt >= now + ReminderWindowMin)

InReminderWindow(start_dt, now) ==
    ~(start_dt < now \/ start_dt > now + ReminderWindowMin)

(* lines 123-153: the loop of _build_reminder_notifications over the events *)
RECURSIVE _build_reminder_notifications(_, _)
_build_reminder_notifications(events, now) ==
    IF events = <<>> THEN <<>>
    ELSE LET ev == Head(events)
             start_dt == _to_local_naive(_parse_iso(StartText(ev)))
             rest == _build_reminder_notifications(Tail(events), now)
         IN IF start_dt.none THEN rest
            ELSE IF ~InReminderWindow(start_dt.t, now) THEN rest
            ELSE <<ReminderOf(ev, start_dt.t)>> \o rest

(* line 174 *)
IsLowStockInclusiveZero(days_left) == 0 <= days_left /\ days_left <= LowStockDays

IsLowStock(days_left) == 0 < days_left /\ days_left <= LowStockDays

(* lines 175-192 *)
LowStockOf(m, est) ==
    LET title_name == IF TitleOf(m) = "" THEN "Medication" ELSE TitleOf(m)
        when_text == IF est.days_left = 1 THEN "in 1 day"
                     ELSE "in " \o ToString(est.days_left) \o " days"
    IN [id |-> "lowstock:" \o m.drug_name \o ":" \o ToString(est.runout_date),
        category |-> "low_stock",
        title |-> "Running low",
        message |-> "You will run out of " \o title_name \o " " \o when_text \o ".",
        due_at |-> est.runout_date,
        color |-> "red",
        metadata |-> [medicationName |-> title_name, daysLeft |-> est.days_left,
                      runoutDate |-> est.runout_date]]

(* lines 166-195: the loop of _build_low_stock_notifications; an item on which
   the body raises is skipped *)
RECURSIVE _build_low_stock_notifications(_, _)
_build_low_stock_notifications(meds, now) ==
    IF meds = <<>> THEN <<>>
    ELSE LET m == Head(meds)
             rest == _build_low_stock_notifications(Tail(meds), now)
         IN IF EstimatorRaises(m) THEN rest
            ELSE LET est == _estimate_runout_date(m, now)
                 IN IF est.none THEN rest
                    ELSE IF IsLowStock(est.days_left)
                    THEN <<LowStockOf(m, est)>> \o rest
                    ELSE rest

(* line 171, for every item of the list: what _estimate_runout_date returned,
   or that it raised *)
Estimates(meds, now) ==
    [i \in 1..Len(meds) |->
        IF EstimatorRaises(meds[i])
        THEN [raised |-> TRUE, none |-> TRUE, runout_date |-> 0, days_left |-> 0]
        ELSE [raised |-> FALSE] @@ _estimate_runout_date(meds[i], now)]

(* lines 249-256: is any dose event on the calendar date of now *)
HasMedToday(events, now) ==
    \E i \in 1..Len(events) :
        LET start_dt == _to_local_naive(_parse_iso(StartText(events[i])))
        IN ~start_dt.none /\ DateOf(start_dt.t) = DateOf(now)

(* sorted(...) on medication titles: the titles of the model in lexicographic
   order *)
AlphaOrder ==
    <<"100mg", "200mg", "Aspirin", "Aspirin 100mg", "Aspirin 200mg", "Ibuprofen",
      "Ibuprofen 100mg", "Ibuprofen 200mg", "Medication">>

Sorted(names) == SelectSeq(AlphaOrder, LAMBDA x : x \in names)

RECURSIVE Join(_, _)
Join(names, sep) ==
    IF names = <<>> THEN ""
    ELSE IF Len(names) = 1 THEN names[1]
    ELSE names[1] \o sep \o Join(Tail(names), sep)

(* line 368: the window of _get_recent_meds_before_event *)
InRecentWindowClosedStart(start_dt, event_start) ==
    event_start - Max(1, RecentHours) * HourMin <= start_dt /\ start_dt <= event_start

InRecentWindow(start_dt, event_start) ==
    event_start - Max(1, RecentHours) * HourMin < start_dt /\ start_dt <= event_start

(* _get_recent_meds_before_event: the titles (a list, possibly with repeats)
   of the dose events in the window; [] when the projector raises.  gme is
   what get_medication_events returned. *)
RECURSIVE RecentTitles(_, _)
RecentTitles(events, event_start) ==
    IF events = <<>> THEN <<>>
    ELSE LET ev == Head(events)
             start_dt == _to_local_naive(_parse_iso(StartText(ev)))
             rest == RecentTitles(Tail(events), event_start)
         IN IF ev.title = "" \/ start_dt.none THEN rest
            ELSE IF InRecentWindow(start_dt.t, event_start)
            THEN <<ev.title>> \o rest
            ELSE rest

_get_recent_meds_before_event(gme, event_start) ==
    IF gme.raised THEN <<>> ELSE RecentTitles(gme.events, event_start)

(* line 288: sorted({m for m in recent_meds}) *)
MedNames(recent_meds) == Sorted({recent_meds[i] : i \in 1..Len(recent_meds)})

(* A description is cut where the code cuts it: head holds its first 256
   characters (the part the key keeps, line 590), mid the characters up to
   600 (the part the prompt keeps, lines 475-477), tail the rest. *)
NoDescription == [head |-> "", mid |-> "", tail |-> ""]

(* _make_advice_cache_key: "adv:" and the SHA-256 of the JSON payload.  The
   digest is taken to be collision-free: the key is the payload's text. *)
_make_advice_cache_key(event_id, event_start, event_title, event_description, medications, base_url) ==
    "adv:" \o event_id \o "|" \o ToString(event_start) \o "|" \o event_title
      \o "|" \o event_description.head \o "|" \o Join(Sorted({medications[i] :
                                              i \in 1..Len(medications)}), ",")
      \o "|gpt-5-nano|" \o (IF base_url = "" THEN "default" ELSE base_url)

(* Whether the loop body of _build_event_soon_notifications raises on ev:
   ev.get on a non-dict item, .get on a truthy non-dict "start".  Nothing in
   the function, nor in get_notifications, catches it. *)
EventSoonRaises(ev) == ev.shape # "dict" \/ ev.start.k = "badtype"

(* A window without its last minute *)
EventQualifiesOpenEnd(start_dt, now) ==
    /\ DateOf(start_dt) = DateOf(now)
    /\ now <= start_dt /\ start_dt < now + EventWindowHours * HourMin

(* lines 273-275: same calendar date and now <= start <= now + 8h *)
EventQualifies(start_dt, now) ==
    /\ DateOf(start_dt) = DateOf(now)
    /\ now <= start_dt /\ start_dt <= now + EventWindowHours * HourMin

(* lines 277, 294: title and the identity used in ids and keys *)
EventTitle(ev) == IF ev.title # "" THEN ev.title ELSE "Event"
EventIdentity(ev) == IF ev.id # "" THEN ev.id ELSE EventTitle(ev)

(* lines 290-296, 321-344 *)
EventSoonOf(ev, start_dt, now, med_names, advice, advice_key) ==
    LET title == EventTitle(ev)
        mins_left == Max(0, start_dt - now)
        hours == mins_left \div 60
        minutes == mins_left % 60
        when_text == IF hours > 0
                     THEN ToString(hours) \o "h " \o ToString(minutes) \o "m"
                     ELSE ToString(minutes) \o "m"
        meds_text == IF med_names # <<>> THEN Join(med_names, ", ")
                     ELSE "no recent meds"
        base_msg == "You have '" \o title \o "' today in " \o when_text
                      \o ". Recent meds (<=12h): " \o meds_text \o "."
    IN [id |-> "eventsoon:" \o EventIdentity(ev) \o ":" \o ToString(start_dt),
        category |-> "event_soon",
        title |-> "Event soon after your dose",
        message |-> IF advice # "" THEN base_msg \o " Advice: " \o advice
                    ELSE base_msg,
        due_at |-> start_dt,
        color |-> "brown",
        metadata |-> [eventTitle |-> title, eventStartAt |-> start_dt,
                      recentMeds |-> med_names, advice |-> advice,
                      adviceKey |-> advice_key]]

(* lines 612-623: list.sort(key=due_at.timestamp()), a stable sort *)
RECURSIVE InsertByDueAt(_, _)
InsertByDueAt(n, sorted) ==
    IF sorted = <<>> THEN <<n>>
    ELSE IF Head(sorted).due_at <= n.due_at
    THEN <<Head(sorted)>> \o InsertByDueAt(n, Tail(sorted))
    ELSE <<n>> \o sorted

RECURSIVE SortByDueAt(_)
SortByDueAt(items) ==
    IF items = <<>> THEN <<>>
    ELSE InsertByDueAt(items[Len(items)], SortByDueAt(SubSeq(items, 1, Len(items) - 1)))

(* The three lists put together and left in the order of the passes *)
MergeUnsorted(reminders, low_stock, event_soon) ==
    reminders \o low_stock \o event_soon

(* lines 610-627: the payload's list *)
MergeAndSort(reminders, low_stock, event_soon) ==
    SortByDueAt(reminders \o low_stock \o event_soon)

-----------------------------------------------------------------------------
(* Caches: a JSON object is a function from its keys *)

EmptyDict == [k \in {} |-> ""]

(* dict.get(key) with "" (or []) standing for None *)
DictGet(d, key, default) == IF key \in DOMAIN d THEN d[key] ELSE default

DictSet(d, key, value) == [k \in DOMAIN d \cup {key} |-> IF k = key THEN value ELSE d[k]]

(* The request threads of the server *)
Threads == {"t1", "t2"}

(* The two cache files when nothing is wrong with them: each parses as a JSON
   object.  tmp is the file at the advice cache's temporary path (line 559: the
   same path for every writer), fd what the file each thread has open for
   writing has become ("tmp", "live" once it was moved to the cache's path,
   "gone" once it was replaced there), junk the length of the advice file
   when it does not parse.  storeValid says whether personal_medication.json
   holds a complete document, storeJunk is its length when it does not, and
   req is the store request each thread is serving: how far it is and the
   document it is writing. *)
CleanFs ==
    [adviceValid |-> TRUE, calValid |-> TRUE,
     tmp |-> [there |-> FALSE, valid |-> FALSE, doc |-> EmptyDict, size |-> 0],
     fd |-> [p \in Threads |-> "none"], junk |-> 0,
     storeValid |-> TRUE, storeJunk |-> 0,
     req |-> [p \in Threads |-> [pc |-> "idle", doc |-> <<>>, others |-> <<>>]]]

(* The length of json.dump(doc, indent=2): "{}" for the empty object, else one
   line of the form   "key": "value"   per entry, between "{" and "}" *)
JsonSize(doc) ==
    LET RECURSIVE Lines(_)
        Lines(keys) ==
            IF keys = {} THEN 0
            ELSE LET k == CHOOSE x \in keys : TRUE
                 IN Len(k) + Len(doc[k]) + 10 + Lines(keys \ {k})
    IN IF DOMAIN doc = {} THEN 2 ELSE Lines(DOMAIN doc) + 2

(* _load_advice_cache, lines 543-552: {} when the file is missing, cannot be
   read or does not parse as an object *)
(* A read that hands out whatever the damaged file held *)
LoadDamaged(files, content) == content

_load_advice_cache(files, content) == IF files.adviceValid THEN content ELSE EmptyDict

(* storage/events.py _load_cache, lines 18-29: the same for the event cache *)
_load_cache(files, content) == IF files.calValid THEN content ELSE EmptyDict

(* _advice_cache_get, lines 567-569 *)
AdviceCacheGetNever(cache, key) == ""

_advice_cache_get(cache, key) == DictGet(cache, key, "")

(* storage/events.py get_events, lines 48-50 *)
GetEventsNever(cache, calendar_id) == <<>>

get_events(cache, calendar_id) == DictGet(cache, calendar_id, <<>>)

-----------------------------------------------------------------------------
(* One invocation of get_notifications, step by step.  A step is one access
   to shared state (a file read, a file replace, an external call) with the
   local computation that follows it. *)

NoCur == [key |-> "", start |-> 0, med_names |-> <<>>, advice |-> "", seen |-> ""]

(* What the advice cache file holds for key when it is read (adviceLog's and
   cur's "seen"), whatever the reader makes of it *)
Held(cache, key) == IF key \in DOMAIN cache THEN cache[key] ELSE ""

(* The inputs of _make_advice_cache_key for calendar event ev *)
AdviceContext(ev, start, med_names, base_url) ==
    [event_id |-> EventIdentity(ev), event_start |-> start, title |-> EventTitle(ev),
     description |-> ev.description, recent_meds |-> med_names,
     model |-> "gpt-5-nano", endpoint |-> base_url]

(* _build_llm_client, line 445: the endpoint the client is built for, whatever
   OPENAI_BASE_URL says *)
ClientBaseUrl == "https://fj7qg3jbr3.execute-api.eu-west-1.amazonaws.com/v1"

(* _llm_personalized_event_advice, lines 475-506: what the call sends, for the
   context of one advice computation: the title, the start, the description
   cut after 600 characters (with an ellipsis when something was cut), the
   medication names, the model and the client's endpoint.  The event id is
   not sent. *)
PromptInputs(context) ==
    [title |-> context.title,
     start |-> context.event_start,
     desc |-> context.description.head \o context.description.mid
                \o (IF context.description.tail # "" THEN "..." ELSE ""),
     meds |-> context.recent_meds,
     model |-> context.model,
     base_url |-> ClientBaseUrl]

(* Nothing wrong around the engine: one user in the store, both cache files
   in order, both collaborators answering *)
Healthy == storeOthers = <<>> /\ fs = CleanFs /\ silent = {}

IdleInvocation(runs) ==
    [pc |-> "idle", runsLeft |-> runs, now |-> 0, reminders |-> <<>>,
     low_stock |-> <<>>, events |-> <<>>, idx |-> 1, event_soon |-> <<>>,
     cur |-> NoCur, cacheCopy |-> EmptyDict, live |-> <<>>, out |-> <<>>,
     doseEvents |-> <<>>, estimates |-> <<>>, calCalls |-> 0, reads |-> <<>>]

(* What a read of the store file gives now; an invocation records its reads
   in the history field reads: lines 200-206 of repository.py and 43-62 of
   service.py each open and parse the file anew *)
StoreSeen == [meds |-> store, complete |-> fs.storeValid]

Env == <<clock, store, storeOthers, envCalendarId, envBaseUrl, liveEvents, silent>>
Others == <<Env, fs>>

(* line 605: now = _now() *)
GetNotifications(p) ==
    /\ inv[p].pc \in {"idle", "done", "raised"}
    /\ inv[p].runsLeft > 0
    /\ inv' = [inv EXCEPT ![p] = [IdleInvocation(inv[p].runsLeft - 1) EXCEPT
                                    !.pc = "reminders", !.now = clock]]
    /\ UNCHANGED <<Others, calCache, adviceCache, llmCalls, adviceLog>>

(* line 606: _build_reminder_notifications(now); get_medication_events reads
   the store, and an exception it raises leaves get_notifications *)
BuildReminders(p) ==
    /\ inv[p].pc = "reminders"
    /\ LET gme == get_medication_events(store, DateOf(clock))
       IN inv' = [inv EXCEPT ![p] =
             IF gme.raised THEN [@ EXCEPT !.pc = "raised"]
             ELSE [@ EXCEPT !.pc = "low_stock",
                            !.doseEvents = gme.events,
                            !.reads = Append(@, StoreSeen),
                            !.reminders = _build_reminder_notifications(gme.events,
                                                                        inv[p].now)]]
    /\ UNCHANGED <<Others, calCache, adviceCache, llmCalls, adviceLog>>

(* A low-stock pass that writes the store back without the first row *)
BuildLowStockPruning(p) ==
    /\ inv[p].pc = "low_stock"
    /\ inv' = [inv EXCEPT ![p].pc = "event_gate",
                          ![p].reads = Append(@, StoreSeen),
                          ![p].estimates = Estimates(store, inv[p].now),
                          ![p].low_stock = _build_low_stock_notifications(store, inv[p].now)]
    /\ store' = IF store = <<>> THEN store ELSE Tail(store)
    /\ UNCHANGED <<clock, storeOthers, envCalendarId, envBaseUrl, liveEvents, silent, fs,
                   calCache, adviceCache, llmCalls, adviceLog>>

(* line 607: _build_low_stock_notifications(now); _load_personal_medications
   reads the store *)
BuildLowStock(p) ==
    /\ inv[p].pc = "low_stock"
    /\ inv' = [inv EXCEPT ![p].pc = "event_gate",
                          ![p].reads = Append(@, StoreSeen),
                          ![p].estimates = Estimates(store, inv[p].now),
                          ![p].low_stock = _build_low_stock_notifications(store, inv[p].now)]
    /\ UNCHANGED <<Others, calCache, adviceCache, llmCalls, adviceLog>>

(* lines 247-260: the gate of _build_event_soon_notifications *)
GateAlwaysOpen(events, now) == TRUE

Gate(events, now) == HasMedToday(events, now)

EventGate(p) ==
    /\ inv[p].pc = "event_gate"
    /\ LET gme == get_medication_events(store, DateOf(clock))
       IN inv' = [inv EXCEPT ![p] =
             IF gme.raised THEN [@ EXCEPT !.pc = "raised"]
             ELSE IF ~Gate(gme.events, inv[p].now)
             THEN [@ EXCEPT !.pc = "merge", !.reads = Append(@, StoreSeen)]
             ELSE [@ EXCEPT !.pc = "cal_cache", !.reads = Append(@, StoreSeen)]]
    /\ UNCHANGED <<Others, calCache, adviceCache, llmCalls, adviceLog>>

(* lines 206-214 of _load_calendar_events: the cache is read first *)
LoadCalendarCache(p) ==
    /\ inv[p].pc = "cal_cache"
    /\ inv' = [inv EXCEPT ![p] =
          IF envCalendarId = "" THEN [@ EXCEPT !.pc = "merge"]
          ELSE LET events == get_events(_load_cache(fs, calCache), envCalendarId)
               IN IF events # <<>>
                  THEN [@ EXCEPT !.pc = "event_loop", !.events = events, !.idx = 1,
                                 !.calCalls = @ + 1]
                  ELSE [@ EXCEPT !.pc = "cal_live", !.calCalls = @ + 1]]
    /\ UNCHANGED <<Others, calCache, adviceCache, llmCalls, adviceLog>>

(* lines 215-224: the live fetch; it returns the service's list or raises.
   cal_api.py line 34: requests.get without a timeout waits for as long as the
   service keeps the request open *)
LiveFetch(p) ==
    /\ inv[p].pc = "cal_live"
    /\ "calendar" \notin silent
    /\ \E ok \in BOOLEAN :
         inv' = [inv EXCEPT ![p] =
            IF ok THEN [@ EXCEPT !.pc = "cal_set_load", !.live = liveEvents,
                                 !.calCalls = @ + 1]
            ELSE [@ EXCEPT !.pc = "merge", !.calCalls = @ + 1]]
    /\ UNCHANGED <<Others, calCache, adviceCache, llmCalls, adviceLog>>

(* storage/events.py set_events, line 54: cache = _load_cache() *)
SetEventsLoad(p) ==
    /\ inv[p].pc = "cal_set_load"
    /\ inv' = [inv EXCEPT ![p].pc = "cal_set_save",
                          ![p].cacheCopy = _load_cache(fs, calCache)]
    /\ UNCHANGED <<Others, calCache, adviceCache, llmCalls, adviceLog>>

(* set_events, lines 55-56: cache[calendar_id] = events; _save_cache(cache);
   then lines 221, 263: the fetched list is the pass's event list *)
SetEventsSave(p) ==
    /\ inv[p].pc = "cal_set_save"
    /\ calCache' = DictSet(inv[p].cacheCopy, envCalendarId, inv[p].live)
    /\ fs' = [fs EXCEPT !.calValid = TRUE]
    /\ inv' = [inv EXCEPT ![p] =
          IF inv[p].live = <<>> THEN [@ EXCEPT !.pc = "merge", !.cacheCopy = EmptyDict]
          ELSE [@ EXCEPT !.pc = "event_loop", !.events = inv[p].live, !.idx = 1,
                         !.cacheCopy = EmptyDict]]
    /\ UNCHANGED <<Env, adviceCache, llmCalls, adviceLog>>

(* The end of an iteration that drops the event when it has no advice *)
FinishEventDropsFailed(p, advice, src, stored) ==
    LET c == inv[p]
        ev == c.events[c.idx]
        n == EventSoonOf(ev, c.cur.start, c.now, c.cur.med_names, advice, c.cur.key)
    IN /\ inv' = [inv EXCEPT ![p] = [@ EXCEPT !.pc = "event_loop", !.idx = @ + 1,
                                              !.event_soon = IF advice = "" THEN @
                                                             ELSE Append(@, n),
                                              !.cur = NoCur, !.cacheCopy = EmptyDict]]
       /\ adviceLog' = Append(adviceLog,
                              [key |-> c.cur.key, src |-> src, advice |-> advice,
                               stored |-> stored, by |-> p, at |-> c.now,
                               seen |-> c.cur.seen,
                               context |-> AdviceContext(ev, c.cur.start,
                                                         c.cur.med_names, envBaseUrl)])

(* The end of one iteration of the loop of lines 268-344: the notification is
   appended and the loop moves on.  adviceLog records the computation. *)
FinishEvent(p, advice, src, stored) ==
    LET c == inv[p]
        ev == c.events[c.idx]
        n == EventSoonOf(ev, c.cur.start, c.now, c.cur.med_names, advice, c.cur.key)
    IN /\ inv' = [inv EXCEPT ![p] = [@ EXCEPT !.pc = "event_loop", !.idx = @ + 1,
                                              !.event_soon = Append(@, n),
                                              !.cur = NoCur, !.cacheCopy = EmptyDict]]
       /\ adviceLog' = Append(adviceLog,
                              [key |-> c.cur.key, src |-> src, advice |-> advice,
                               stored |-> stored, by |-> p, at |-> c.now,
                               seen |-> c.cur.seen,
                               context |-> AdviceContext(ev, c.cur.start,
                                                         c.cur.med_names, envBaseUrl)])

(* lines 268-305: the next calendar event: skipped, or its recent medications
   (a read of the store) and its advice-cache key *)
EventStep(p) ==
    /\ inv[p].pc = "event_loop"
    /\ LET c == inv[p]
       IN IF c.idx > Len(c.events) THEN inv' = [inv EXCEPT ![p].pc = "merge"]
          ELSE LET ev == c.events[c.idx]
                   start_dt == _to_local_naive(_parse_iso(StartText(ev)))
               IN IF EventSoonRaises(ev) THEN inv' = [inv EXCEPT ![p].pc = "raised"]
                  ELSE IF start_dt.none \/ ~EventQualifies(start_dt.t, c.now)
                  THEN inv' = [inv EXCEPT ![p].idx = @ + 1]
                  ELSE LET gme == get_medication_events(store, DateOf(clock))
                           recent_meds == _get_recent_meds_before_event(gme, start_dt.t)
                           med_names == MedNames(recent_meds)
                           key == _make_advice_cache_key(EventIdentity(ev), start_dt.t,
                                      EventTitle(ev), ev.description, med_names,
                                      envBaseUrl)
                       IN inv' = [inv EXCEPT ![p].pc = "adv_get",
                                    ![p].reads = Append(@, StoreSeen),
                                    ![p].cur = [key |-> key, start |-> start_dt.t,
                                                med_names |-> med_names,
                                                advice |-> "", seen |-> ""]]
    /\ UNCHANGED <<Others, calCache, adviceCache, llmCalls, adviceLog>>

(* lines 306-308: advice = _advice_cache_get(advice_key) *)
AdviceCacheGet(p) ==
    /\ inv[p].pc = "adv_get"
    /\ LET cache == _load_advice_cache(fs, adviceCache)
           advice == _advice_cache_get(cache, inv[p].cur.key)
       IN IF advice # "" THEN FinishEvent(p, advice, "cache", FALSE)
          ELSE /\ inv' = [inv EXCEPT ![p].pc = "llm",
                                     ![p].cur.seen = Held(cache, inv[p].cur.key)]
               /\ UNCHANGED adviceLog
    /\ UNCHANGED <<Others, calCache, adviceCache, llmCalls>>

(* str.rstrip() for blanks *)
RECURSIVE RStrip(_)
RStrip(text) ==
    IF text # "" /\ SubSeq(text, Len(text), Len(text)) = " "
    THEN RStrip(SubSeq(text, 1, Len(text) - 1))
    ELSE text

(* lines 528-529: content[:200].rstrip() + ellipsis when the answer is longer
   than 200 characters ("~" stands for the one-character ellipsis) *)
AdviceMaxChars == 200

TruncateAdvice(content) ==
    IF Len(content) > AdviceMaxChars
    THEN RStrip(SubSeq(content, 1, AdviceMaxChars)) \o "~"
    ELSE content

RECURSIVE Repeat(_, _)
Repeat(text, n) == IF n = 0 THEN "" ELSE text \o Repeat(text, n - 1)

(* What the model may answer: a sentence, or one of 266 characters *)
ModelAnswers ==
    {"Avoid alcohol and driving.", Repeat("Hydrate well and avoid alcohol today. ", 7)}

(* What the advice generation can return: "" when the call fails or the model
   answers nothing, else the answer as lines 527-530 leave it *)
LlmAnswers == {""} \cup {TruncateAdvice(content) : content \in ModelAnswers}

(* lines 310-316: _llm_personalized_event_advice, one call of the collaborator.
   The client is built without a timeout of its own (lines 443-446) and gives
   up by its library default: a call that is never answered ends as a failed
   one *)
LlmAdvice(p) ==
    /\ inv[p].pc = "llm"
    /\ llmCalls' = DictSet(llmCalls, inv[p].cur.key,
                           DictGet(llmCalls, inv[p].cur.key, 0) + 1)
    /\ \E answer \in (IF "llm" \in silent THEN {""} ELSE LlmAnswers) :
         IF answer # ""
         THEN /\ inv' = [inv EXCEPT ![p].pc = "adv_set_load", ![p].cur.advice = answer]
              /\ UNCHANGED adviceLog
         ELSE FinishEvent(p, "", "llm", FALSE)
    /\ UNCHANGED <<Others, calCache, adviceCache>>

(* _advice_cache_set, line 573: cache = _load_advice_cache() *)
AdviceCacheSetLoad(p) ==
    /\ inv[p].pc = "adv_set_load"
    /\ inv' = [inv EXCEPT ![p].pc = "adv_set_save",
                          ![p].cacheCopy = _load_advice_cache(fs, adviceCache)]
    /\ UNCHANGED <<Others, calCache, adviceCache, llmCalls, adviceLog>>

(* _advice_cache_set, lines 574-575: cache[key] = value; _save_advice_cache,
   which swallows a failed write (lines 563-564) *)
AdviceCacheSetSave(p) ==
    /\ inv[p].pc = "adv_set_save"
    /\ \E written \in BOOLEAN :
         /\ adviceCache' = IF written
                           THEN DictSet(inv[p].cacheCopy, inv[p].cur.key, inv[p].cur.advice)
                           ELSE adviceCache
         /\ fs' = IF written THEN [fs EXCEPT !.adviceValid = TRUE] ELSE fs
         /\ FinishEvent(p, inv[p].cur.advice, "llm", written)
    /\ UNCHANGED <<Env, calCache, llmCalls>>

(* _save_advice_cache taken apart into its calls on the file system, for
   writers that run at the same time.
   Line 560: open(tmp_path, "w") creates the temporary file, or empties the
   one that is there, whoever wrote it *)
SaveOpen(p) ==
    /\ inv[p].pc = "adv_set_save"
    /\ fs' = [fs EXCEPT !.tmp = [there |-> TRUE, valid |-> FALSE, doc |-> EmptyDict,
                                 size |-> 0],
                        !.fd[p] = "tmp"]
    /\ inv' = [inv EXCEPT ![p].pc = "adv_dump"]
    /\ UNCHANGED <<Env, calCache, adviceCache, llmCalls, adviceLog>>

(* Lines 560-561: json.dump and the close that flushes it write the document
   from offset 0 into the file the thread opened, wherever that file is now;
   what was there beyond the document's length stays *)
SaveDump(p) ==
    /\ inv[p].pc = "adv_dump"
    /\ LET doc == DictSet(inv[p].cacheCopy, inv[p].cur.key, inv[p].cur.advice)
           liveSize == IF fs.adviceValid THEN JsonSize(adviceCache) ELSE fs.junk
       IN CASE fs.fd[p] = "tmp" ->
                 /\ fs' = [fs EXCEPT !.fd[p] = "none",
                                     !.tmp = IF JsonSize(doc) >= @.size
                                             THEN [there |-> TRUE, valid |-> TRUE,
                                                   doc |-> doc, size |-> JsonSize(doc)]
                                             ELSE [@ EXCEPT !.valid = FALSE,
                                                            !.doc = EmptyDict]]
                 /\ UNCHANGED adviceCache
            [] fs.fd[p] = "live" ->
                 /\ fs' = [fs EXCEPT !.fd[p] = "none",
                                     !.adviceValid = JsonSize(doc) >= liveSize,
                                     !.junk = IF JsonSize(doc) >= liveSize THEN 0
                                              ELSE liveSize]
                 /\ adviceCache' = IF JsonSize(doc) >= liveSize THEN doc ELSE EmptyDict
            [] OTHER ->
                 /\ fs' = [fs EXCEPT !.fd[p] = "none"]
                 /\ UNCHANGED adviceCache
    /\ inv' = [inv EXCEPT ![p].pc = "adv_replace"]
    /\ UNCHANGED <<Env, calCache, llmCalls, adviceLog>>

(* Line 562: os.replace(tmp_path, path) makes the temporary file the cache
   file; with no file at the temporary path it raises, which lines 563-564
   swallow *)
SaveReplace(p) ==
    /\ inv[p].pc = "adv_replace"
    /\ IF fs.tmp.there
       THEN /\ fs' = [fs EXCEPT !.adviceValid = fs.tmp.valid,
                                !.junk = IF fs.tmp.valid THEN 0 ELSE fs.tmp.size,
                                !.tmp = CleanFs.tmp,
                                !.fd = [q \in Threads |->
                                          IF fs.fd[q] = "tmp" THEN "live"
                                          ELSE IF fs.fd[q] = "live" THEN "gone"
                                          ELSE fs.fd[q]]]
            /\ adviceCache' = fs.tmp.doc
            /\ FinishEvent(p, inv[p].cur.advice, "llm", TRUE)
       ELSE /\ UNCHANGED <<fs, adviceCache>>
            /\ FinishEvent(p, inv[p].cur.advice, "llm", FALSE)
    /\ UNCHANGED <<Env, calCache, llmCalls>>

(* lines 610-635: merge, sort, return *)
Merge(p) ==
    /\ inv[p].pc = "merge"
    /\ inv' = [inv EXCEPT ![p].pc = "done",
                          ![p].out = MergeAndSort(inv[p].reminders, inv[p].low_stock,
                                                  inv[p].event_soon)]
    /\ UNCHANGED <<Others, calCache, adviceCache, llmCalls, adviceLog>>

Invocation(p) ==
    \/ GetNotifications(p)
    \/ BuildReminders(p)
    \/ BuildLowStock(p)
    \/ EventGate(p)
    \/ LoadCalendarCache(p)
    \/ LiveFetch(p)
    \/ SetEventsLoad(p)
    \/ SetEventsSave(p)
    \/ EventStep(p)
    \/ AdviceCacheGet(p)
    \/ LlmAdvice(p)
    \/ AdviceCacheSetLoad(p)
    \/ AdviceCacheSetSave(p)
    \/ Merge(p)

Next == \E p \in Threads : Invocation(p)

-----------------------------------------------------------------------------
(* Inputs *)

Med(shape, drug_name, strength, quantity_left, dose_per_intake, schedule, start_date) ==
    [shape |-> shape, drug_name |-> drug_name, strength |-> strength,
     quantity_left |-> quantity_left, dose_per_intake |-> dose_per_intake,
     schedule |-> schedule, start_date |-> start_date]

Daily(times) == [type |-> "daily", times |-> times, time |-> NoTime]
Weekly(time, times) == [type |-> "weekly", times |-> times, time |-> time]
AsNeeded == [type |-> "as_needed", times |-> <<>>, time |-> NoTime]
NoSchedule == [type |-> "missing", times |-> <<>>, time |-> NoTime]
BadSchedule == [type |-> "badtype", times |-> <<>>, time |-> NoTime]

CalEvent(shape, id, title, description, start) ==
    [shape |-> shape, id |-> id, title |-> title, description |-> description,
     start |-> start]

StartAt(t) == [k |-> "dict", date_time |-> [k |-> "iso", v |-> t]]
StartBadDate == [k |-> "dict", date_time |-> Bad]
StartMissing == [k |-> "missing", date_time |-> Missing]
StartBadType == [k |-> "badtype", date_time |-> Missing]

-----------------------------------------------------------------------------
(* Medication store: data/utils.py and medications/repository.py.
   store is the medication list of the user the engine serves, storeOthers
   the rows of every other user of the same file.  A file that is missing or
   holds no JSON list reads as no rows at all. *)

CharAt(text, i) == SubSeq(text, i, i)

(* str.lower(), on texts without outer blanks (strip() keeps them as they are) *)
RECURSIVE Lower(_)
Lower(text) ==
    IF text = "" THEN ""
    ELSE LET Uppers == "ABCDEFGHIJKLMNOPQRSTUVWXYZ"
             Lowers == "abcdefghijklmnopqrstuvwxyz"
             c == CharAt(text, 1)
             up == {i \in 1..Len(Uppers) : CharAt(Uppers, i) = c}
         IN (IF up = {} THEN c ELSE CharAt(Lowers, CHOOSE i \in up : TRUE))
              \o Lower(SubSeq(text, 2, Len(text)))

(* name.rsplit(" ", 1): the position of the last blank, 0 when there is none *)
LastSpace(name) ==
    LET blanks == {i \in 1..Len(name) : CharAt(name, i) = " "}
    IN IF blanks = {} THEN 0 ELSE CHOOSE i \in blanks : \A j \in blanks : j <= i

RSplit(name) ==
    [drug_name |-> SubSeq(name, 1, LastSpace(name) - 1),
     strength |-> SubSeq(name, LastSpace(name) + 1, Len(name))]

(* repository.py lines 148-153: the split is taken only when the last part
   holds a digit *)
SplitNameWithDigit(name) ==
    LET last == RSplit(name).strength
        HasDigit == \E i \in 1..Len(last), j \in 1..10 :
                        CharAt(last, i) = CharAt("0123456789", j)
    IN IF LastSpace(name) # 0 /\ HasDigit THEN RSplit(name)
       ELSE [drug_name |-> name, strength |-> ""]

(* repository.py lines 275-281 *)
_split_name(name) ==
    IF LastSpace(name) # 0 THEN RSplit(name) ELSE [drug_name |-> name, strength |-> ""]

(* int(value or 0) of a stored or given quantity that is a number or null *)
IntOrZero(value) == IF value.k = "num" THEN value.v ELSE 0

(* The first row whose name and strength match case-insensitively, 0 when no
   row matches (utils.py lines 86-93, repository.py lines 306-310) *)
FindRow(meds, drug_name, strength) ==
    LET hits == {i \in 1..Len(meds) : /\ Lower(meds[i].drug_name) = Lower(drug_name)
                                      /\ Lower(meds[i].strength) = Lower(strength)}
    IN IF hits = {} THEN 0 ELSE CHOOSE i \in hits : \A j \in hits : i <= j

PALETTE == <<"med-blue", "med-green", "med-orange", "med-purple", "med-pink", "med-yellow">>

(* med.get("color"): "" stands for an absent, null or empty colour *)
ColorOf(m) == IF "color" \in DOMAIN m THEN m.color ELSE ""

_normalize_name(m) == Lower(m.drug_name) \o "|" \o Lower(m.strength)

_assign_unique_color(existing, new_norm) ==
    LET same == {i \in 1..Len(existing) : /\ _normalize_name(existing[i]) = new_norm
                                          /\ ColorOf(existing[i]) # ""}
        used == {ColorOf(existing[i]) : i \in 1..Len(existing)}
        free == {i \in 1..Len(PALETTE) : PALETTE[i] \notin used}
    IN IF same # {} THEN ColorOf(existing[CHOOSE i \in same : \A j \in same : i <= j])
       ELSE IF free # {} THEN PALETTE[CHOOSE i \in free : \A j \in free : i <= j]
       ELSE PALETTE[(Len(existing) % Len(PALETTE)) + 1]

(* utils.py lines 81-110, on the user's list: the list the call writes back *)
add_new_medication(meds, new_medication) ==
    LET found_idx == FindRow(meds, new_medication.drug_name, new_medication.strength)
        new_qty == IntOrZero(new_medication.quantity_left)
        filled == [new_medication EXCEPT
                     !.dose_per_intake = IF @.k = "missing" THEN Num(1) ELSE @]
        color == IF ColorOf(new_medication) # "" THEN ColorOf(new_medication)
                 ELSE _assign_unique_color(meds, _normalize_name(new_medication))
    IN IF found_idx # 0
       THEN [meds EXCEPT ![found_idx].quantity_left = Num(IntOrZero(@) + new_qty)]
       ELSE Append(meds, [color |-> color] @@ filled)

(* utils.py lines 118-122, from row i on: the rows are coloured in place, one
   after the other *)
RECURSIVE ensure_colors(_, _)
ensure_colors(meds, i) ==
    IF i > Len(meds) THEN meds
    ELSE IF ColorOf(meds[i]) # "" THEN ensure_colors(meds, i + 1)
    ELSE ensure_colors([meds EXCEPT ![i] = [color |-> _assign_unique_color(meds,
                                               _normalize_name(meds[i]))] @@ meds[i]],
                       i + 1)

ManualAddQuantity == 30
WeekHours == 168

(* repository.py lines 155-159 and 321-327 *)
ScheduleFromInterval(time, hour_interval) ==
    IF hour_interval >= WeekHours THEN Weekly(HHMM(time), <<>>)
    ELSE Daily(<<HHMM(time)>>)

(* repository.py lines 145-170, on the user's list *)
add_medication(meds, name, time, hour_interval, start_date) ==
    LET parts == SplitNameWithDigit(name)
    IN Append(meds, Med("dict", parts.drug_name, parts.strength, Num(ManualAddQuantity),
                        Num(1), ScheduleFromInterval(time, hour_interval), start_date))

(* repository.py lines 303-338, on the user's list *)
upsert_scanned_medication(meds, name, quantity, time, hour_interval, start_date) ==
    LET parts == _split_name(name)
        idx == FindRow(meds, parts.drug_name, parts.strength)
        qty_to_add == Max(0, quantity)
    IN IF idx # 0
       THEN [meds EXCEPT ![idx].quantity_left = Num(IntOrZero(@) + qty_to_add)]
       ELSE Append(meds, Med("dict", parts.drug_name, parts.strength, Num(qty_to_add),
                             Num(1), ScheduleFromInterval(time, hour_interval),
                             start_date))

-----------------------------------------------------------------------------
(* Input lists *)

RECURSIVE PickFrom(_, _, _)
PickFrom(master, chosen, i) ==
    IF i > Len(master) THEN <<>>
    ELSE (IF i \in chosen THEN <<master[i]>> ELSE <<>>) \o PickFrom(master, chosen, i + 1)

(* The sublists of a list, order kept *)
Sublists(master) == {PickFrom(master, chosen, 1) : chosen \in SUBSET (1..Len(master))}

Aspirin == Med("dict", "Aspirin", "100mg", Num(2), Num(1), Daily(<<HHMM(8)>>), Num(1))
Ibuprofen == Med("dict", "Ibuprofen", "200mg", Num(3), Num(1), Daily(<<HHMM(20)>>), Num(2))
BadScheduleMed == Med("dict", "Aspirin", "200mg", Num(4), Num(1), BadSchedule, Num(1))

EngineMeds == <<Aspirin, Ibuprofen, BadScheduleMed>>

Gym == CalEvent("dict", "ev1", "Gym", [head |-> "Leg day", mid |-> "", tail |-> ""],
                StartAt(AtHour(1, 10)))
Dinner == CalEvent("dict", "", "Dinner", NoDescription, StartAt(AtHour(1, 15) + 45))
BadDateEvent == CalEvent("dict", "ev3", "Call", NoDescription, StartBadDate)
BadStartEvent == CalEvent("dict", "ev4", "Trip", NoDescription, StartBadType)

EngineEvents == <<Gym, Dinner, BadDateEvent, BadStartEvent>>

Morning == AtHour(1, 7) + 45

TickMinutes == 15

(* Time passes between two polls *)
Tick ==
    /\ \A p \in Threads : inv[p].pc \in {"idle", "done", "raised"}
    /\ \E p \in Threads : inv[p].pc # "idle" /\ inv[p].runsLeft > 0
    /\ clock < Morning + TickMinutes
    /\ clock' = clock + TickMinutes
    /\ UNCHANGED <<store, storeOthers, envCalendarId, envBaseUrl, liveEvents, calCache,
                   adviceCache, llmCalls, adviceLog, fs, silent, inv>>

(* The engine, polled MaxRuns times by one client *)
Init ==
    /\ clock = Morning
    /\ store \in Sublists(EngineMeds)
    /\ envCalendarId = "cal1"
    /\ envBaseUrl = ""
    /\ liveEvents \in Sublists(EngineEvents)
    /\ calCache = EmptyDict
    /\ adviceCache = EmptyDict
    /\ llmCalls = EmptyDict
    /\ adviceLog = <<>>
    /\ Healthy
    /\ inv = [p \in Threads |-> IdleInvocation(IF p = "t1" THEN MaxRuns ELSE 0)]

NextEngine == Next \/ Tick

Spec == Init /\ [][NextEngine]_vars

(* The Event Projector and the Runout Estimator on one medication record *)
TimesOfLen(n) == [i \in 1..n |-> HHMM(DefaultHour + 6 * (i - 1))]

ProjectorSchedules ==
    {Daily(TimesOfLen(n)) : n \in 0..MaxTimes}
      \cup {Weekly(HHMM(DefaultHour), TimesOfLen(n)) : n \in 0..MaxTimes}
      \cup {AsNeeded, NoSchedule, BadSchedule}
      \cup {Daily(<<HHMM(14), HHMM(DefaultHour)>>), Daily(<<BadTime>>),
            Daily(<<NoTime>>), Weekly(HHMM(14), <<HHMM(DefaultHour)>>),
            Weekly(BadTime, <<>>), Weekly(NoTime, <<>>),
            [type |-> "monthly", times |-> <<HHMM(14)>>, time |-> HHMM(14)]}

ProjectorMeds ==
    {Med("dict", "Aspirin", "100mg", q, d, sch, sd) :
        q \in {Num(n) : n \in -1..MaxQty} \cup {Bad, Missing},
        d \in {Num(n) : n \in 0..MaxDose} \cup {Bad, Missing},
        sch \in ProjectorSchedules,
        sd \in {Num(0), Num(1), Bad}}

ProjectorClocks == {AtHour(1, DefaultHour) + d : d \in {-31, -30, 0, 1}}

InitProjector ==
    /\ clock \in ProjectorClocks
    /\ store \in {<<m>> : m \in ProjectorMeds}
    /\ envCalendarId = ""
    /\ envBaseUrl = ""
    /\ liveEvents = <<>>
    /\ calCache = EmptyDict
    /\ adviceCache = EmptyDict
    /\ llmCalls = EmptyDict
    /\ adviceLog = <<>>
    /\ Healthy
    /\ inv = [p \in Threads |-> IdleInvocation(IF p = "t1" THEN 1 ELSE 0)]

NextProjector ==
    \E p \in Threads :
        \/ GetNotifications(p)
        \/ BuildReminders(p)
        \/ BuildLowStock(p)
        \/ EventGate(p)
        \/ LoadCalendarCache(p)
        \/ Merge(p)

SpecProjector == InitProjector /\ [][NextProjector]_vars

(* Two requests served at the same time *)
InitOverlap ==
    /\ clock = Morning
    /\ store = <<Aspirin>>
    /\ envCalendarId = "cal1"
    /\ envBaseUrl = ""
    /\ liveEvents \in {<<Gym>>, <<Gym, Dinner>>}
    /\ calCache = EmptyDict
    /\ adviceCache = EmptyDict
    /\ llmCalls = EmptyDict
    /\ adviceLog = <<>>
    /\ Healthy
    /\ inv = [p \in Threads |-> IdleInvocation(1)]

SpecOverlap == InitOverlap /\ [][Next]_vars

-----------------------------------------------------------------------------
(* A calendar event whose description is edited between two polls *)

(* The first 256 characters of a long description, and two versions of what
   follows them (characters 257 to 600) *)
LongHead == "Leg day with the club, then sauna. [256 characters]"
Notes == {" Bring the inhaler.", " Long run in the sun first."}

GymNotes(mid) ==
    CalEvent("dict", "ev1", "Gym", [head |-> LongHead, mid |-> mid, tail |-> ""],
             StartAt(AtHour(1, 10)))

(* The owner of the calendar rewrites the end of a long description *)
EditDescription ==
    /\ \A p \in Threads : inv[p].pc \in {"idle", "done", "raised"}
    /\ \E i \in 1..Len(liveEvents), mid \in Notes :
          /\ liveEvents[i].description.head = LongHead
          /\ liveEvents[i].description.mid # mid
          /\ liveEvents' = [liveEvents EXCEPT ![i].description.mid = mid]
    /\ UNCHANGED <<clock, store, storeOthers, envCalendarId, envBaseUrl, calCache,
                   adviceCache, llmCalls, adviceLog, fs, silent, inv>>

(* api/server.py refresh_events_calendar_events: the live list replaces the
   cached one (set_events); nothing is stored when the fetch raises *)
RefreshEvents ==
    /\ \A p \in Threads : inv[p].pc \in {"idle", "done", "raised"}
    /\ envCalendarId # ""
    /\ \E ok \in BOOLEAN :
          /\ calCache' = IF ok THEN DictSet(_load_cache(fs, calCache), envCalendarId,
                                            liveEvents)
                         ELSE calCache
          /\ fs' = IF ok THEN [fs EXCEPT !.calValid = TRUE] ELSE fs
    /\ UNCHANGED <<Env, adviceCache, llmCalls, adviceLog, inv>>

InitKey ==
    /\ clock = Morning
    /\ store = <<Aspirin>>
    /\ envCalendarId = "cal1"
    /\ envBaseUrl \in {"", "https://proxy.example/v1"}
    /\ liveEvents \in {<<GymNotes(mid)>> : mid \in Notes}
                      \cup {<<GymNotes(mid), Dinner>> : mid \in Notes}
    /\ calCache = EmptyDict
    /\ adviceCache = EmptyDict
    /\ llmCalls = EmptyDict
    /\ adviceLog = <<>>
    /\ Healthy
    /\ inv = [p \in Threads |-> IdleInvocation(IF p = "t1" THEN MaxRuns ELSE 0)]

NextKey == Next \/ EditDescription \/ RefreshEvents

SpecKey == InitKey /\ [][NextKey]_vars

(* The medication store written by the endpoints, one call at a time.
   Each operation reads the file, changes the document and writes it whole;
   readable = FALSE is a read that fails although the file is there. *)
MaxRows == 2
MaxStock == 40

StoreFits(meds) ==
    /\ Len(meds) <= MaxRows
    /\ \A i \in 1..Len(meds) : /\ IntOrZero(meds[i].quantity_left) <= MaxStock
                                /\ IntOrZero(meds[i].quantity_left) >= 0 - MaxStock

EngineUnchanged ==
    UNCHANGED <<clock, envCalendarId, envBaseUrl, liveEvents, calCache, adviceCache,
                llmCalls, adviceLog, fs, silent, inv>>

NewMedications ==
    {Med("dict", drug_name, strength, quantity_left, Missing, NoSchedule, Num(1)) :
        drug_name \in {"aspirin"}, strength \in {"100mg", "500mg"},
        quantity_left \in {Num(20), Num(-20), Missing}}

AddedNames == {"Aspirin 100mg", "Vitamin C"}

(* utils.py lines 75-111: _read_json lets a failed open leave the call
   (only JSONDecodeError is caught), and nothing is written *)
AddNewMedication ==
    /\ \E new_medication \in NewMedications, readable \in BOOLEAN :
          IF readable
          THEN /\ StoreFits(add_new_medication(store, new_medication))
               /\ store' = add_new_medication(store, new_medication)
               /\ storeOthers' = storeOthers
          ELSE UNCHANGED <<store, storeOthers>>
    /\ EngineUnchanged

(* utils.py lines 114-124 *)
EnsureColors ==
    /\ \E readable \in BOOLEAN :
          /\ store' = IF readable THEN ensure_colors(store, 1) ELSE store
          /\ storeOthers' = storeOthers
    /\ EngineUnchanged

(* repository.py lines 136-172: _load_json turns every failed read into the
   empty document (lines 40-41), which the call then fills and saves *)
AddMedication ==
    /\ \E name \in AddedNames, hour_interval \in {24, WeekHours}, readable \in BOOLEAN :
          LET doc == IF readable THEN store ELSE <<>>
              meds == add_medication(doc, name, DefaultHour, hour_interval, Num(1))
          IN /\ StoreFits(meds)
             /\ store' = meds
             /\ storeOthers' = IF readable THEN storeOthers ELSE <<>>
    /\ EngineUnchanged

(* repository.py lines 296-338 *)
UpsertScannedMedication ==
    /\ \E name \in AddedNames, quantity \in {-1, 20}, readable \in BOOLEAN :
          LET doc == IF readable THEN store ELSE <<>>
              meds == upsert_scanned_medication(doc, name, quantity, DefaultHour,
                                                DailyStepHours, Num(DateOf(clock)))
          IN /\ StoreFits(meds)
             /\ store' = meds
             /\ storeOthers' = IF readable THEN storeOthers ELSE <<>>
    /\ EngineUnchanged

InitStore ==
    /\ clock = Morning
    /\ store \in {<<>>, <<Aspirin>>}
    /\ storeOthers \in {<<>>, <<Ibuprofen>>}
    /\ envCalendarId = ""
    /\ envBaseUrl = ""
    /\ liveEvents = <<>>
    /\ calCache = EmptyDict
    /\ adviceCache = EmptyDict
    /\ llmCalls = EmptyDict
    /\ adviceLog = <<>>
    /\ fs = CleanFs
    /\ silent = {}
    /\ inv = [p \in Threads |-> IdleInvocation(0)]

NextStore ==
    \/ AddNewMedication
    \/ EnsureColors
    \/ AddMedication
    \/ UpsertScannedMedication

SpecStore == InitStore /\ [][NextStore]_vars

(* add_new_medication taken apart into its calls on the file, for requests
   served at the same time.  A file that is empty or half written reads as
   no rows (json.load fails, utils.py lines 25-26, repository.py lines 40-41,
   service.py lines 54-56): store and storeOthers are then empty.
   utils.py lines 76-110: the file is read and the document is built *)
StoreRead(p) ==
    /\ fs.req[p].pc = "idle"
    /\ \E new_medication \in NewMedications :
          fs' = [fs EXCEPT !.req[p] = [pc |-> "built",
                                       doc |-> add_new_medication(store, new_medication),
                                       others |-> storeOthers]]
    /\ UNCHANGED <<Env, calCache, adviceCache, llmCalls, adviceLog, inv>>

(* _write_json, line 31: open(filepath, "w") empties the file itself *)
StoreOpen(p) ==
    /\ fs.req[p].pc = "built"
    /\ store' = <<>>
    /\ storeOthers' = <<>>
    /\ fs' = [fs EXCEPT !.req[p].pc = "opened", !.storeValid = FALSE, !.storeJunk = 0]
    /\ UNCHANGED <<clock, envCalendarId, envBaseUrl, liveEvents, silent, calCache,
                   adviceCache, llmCalls, adviceLog, inv>>

(* _write_json, line 32 and the close: the document is written from offset 0
   of the file; what another writer left beyond the document's length stays.
   The length of a document is the length of what differs between rows (name,
   strength, quantity, colour, schedule) plus the keys and punctuation of a
   row, which json.dump(indent=2) spreads over more than 100 characters. *)
StoreDump(p) ==
    /\ fs.req[p].pc = "opened"
    /\ LET RowSize(m) == Len(m.drug_name) + Len(m.strength) + Len(ColorOf(m))
                           + Len(ToString(IntOrZero(m.quantity_left)))
                           + (IF m.schedule.type = "missing" THEN 2 ELSE 50) + 120
           RECURSIVE Size(_)
           Size(meds) == IF meds = <<>> THEN 0 ELSE RowSize(Head(meds)) + Size(Tail(meds))
           DocSize(meds, others) == Size(meds) + Size(others) + 60
           mine == DocSize(fs.req[p].doc, fs.req[p].others)
           there == IF fs.storeValid THEN DocSize(store, storeOthers) ELSE fs.storeJunk
       IN IF mine >= there
          THEN /\ store' = fs.req[p].doc
               /\ storeOthers' = fs.req[p].others
               /\ fs' = [fs EXCEPT !.req[p].pc = "written", !.storeValid = TRUE,
                                   !.storeJunk = 0]
          ELSE /\ store' = <<>>
               /\ storeOthers' = <<>>
               /\ fs' = [fs EXCEPT !.req[p].pc = "written", !.storeValid = FALSE,
                                   !.storeJunk = there]
    /\ UNCHANGED <<clock, envCalendarId, envBaseUrl, liveEvents, silent, calCache,
                   adviceCache, llmCalls, adviceLog, inv>>

(* Two store requests and one poll of the engine at the same time *)
InitStoreRace ==
    /\ clock = Morning
    /\ store \in {<<Aspirin>>,
                  <<Med("dict", "Aspirin", "100mg", Num(1), Num(1),
                        Daily(<<HHMM(8)>>), Num(0))>>}
    /\ storeOthers = <<Ibuprofen>>
    /\ envCalendarId = ""
    /\ envBaseUrl = ""
    /\ liveEvents = <<>>
    /\ calCache = EmptyDict
    /\ adviceCache = EmptyDict
    /\ llmCalls = EmptyDict
    /\ adviceLog = <<>>
    /\ fs = CleanFs
    /\ silent = {}
    /\ inv = [p \in Threads |-> IdleInvocation(IF p = "t1" THEN 1 ELSE 0)]

NextStoreRace ==
    \/ NextProjector
    \/ \E p \in Threads : StoreRead(p) \/ StoreOpen(p) \/ StoreDump(p)

SpecStoreRace == InitStoreRace /\ [][NextStoreRace]_vars

(* One poll with calendar events around the ends of the 8-hour window and of
   the day, over one row, the same row twice, or two strengths of the same
   drug, all taken at 08:00 *)
InitWindow ==
    /\ clock \in {Morning, AtHour(1, 20)}
    /\ store \in {<<Aspirin>>, <<Aspirin, Aspirin>>,
                  <<Aspirin, Med("dict", "Aspirin", "200mg", Num(1), Num(1),
                                 Daily(<<HHMM(8)>>), Num(1))>>}
    /\ envCalendarId = "cal1"
    /\ envBaseUrl = ""
    /\ \E a, b \in {-1, 0, 15, 239, 270, 480, 481} :
          /\ a <= b
          /\ liveEvents = [i \in 1..(IF a = b THEN 1 ELSE 2) |->
                             CalEvent("dict", "", "Visit", NoDescription,
                                      StartAt(clock + (IF i = 1 THEN a ELSE b)))]
    /\ calCache = EmptyDict
    /\ adviceCache = EmptyDict
    /\ llmCalls = EmptyDict
    /\ adviceLog = <<>>
    /\ Healthy
    /\ inv = [p \in Threads |-> IdleInvocation(IF p = "t1" THEN 1 ELSE 0)]

SpecWindow == InitWindow /\ [][Next]_vars

(* The surroundings of the engine fail.  The cache files get damaged between
   two accesses: what they hold is no JSON object any more, or cannot be
   read.  A silent collaborator accepts the request and never answers it. *)
DamageFile ==
    /\ \E f \in {"adviceValid", "calValid"} : fs[f] /\ fs' = [fs EXCEPT ![f] = FALSE]
    /\ UNCHANGED <<Env, calCache, adviceCache, llmCalls, adviceLog, inv>>

InitDamage ==
    /\ clock = Morning
    /\ store = <<Aspirin>>
    /\ envCalendarId = "cal1"
    /\ envBaseUrl = ""
    /\ liveEvents \in {<<Gym>>, <<Gym, Dinner>>}
    /\ calCache = EmptyDict
    /\ adviceCache = EmptyDict
    /\ llmCalls = EmptyDict
    /\ adviceLog = <<>>
    /\ storeOthers = <<>>
    /\ fs = CleanFs
    /\ silent \in SUBSET {"calendar", "llm"}
    /\ inv = [p \in Threads |-> IdleInvocation(IF p = "t1" THEN MaxRuns ELSE 0)]

NextDamage == Next \/ DamageFile

SpecDamage == InitDamage /\ [][NextDamage]_vars

(* Two requests at the same time over a warm event cache, the advice file
   being written call by call *)
InitRace ==
    /\ clock = Morning
    /\ store = <<Aspirin>>
    /\ envCalendarId = "cal1"
    /\ envBaseUrl = ""
    /\ liveEvents = <<Gym, Dinner>>
    /\ calCache = DictSet(EmptyDict, envCalendarId, liveEvents)
    /\ adviceCache = EmptyDict
    /\ llmCalls = EmptyDict
    /\ adviceLog = <<>>
    /\ Healthy
    /\ inv = [p \in Threads |-> IdleInvocation(1)]

NextRace ==
    \E p \in Threads :
        \/ GetNotifications(p)
        \/ BuildReminders(p)
        \/ BuildLowStock(p)
        \/ EventGate(p)
        \/ LoadCalendarCache(p)
        \/ EventStep(p)
        \/ AdviceCacheGet(p)
        \/ LlmAdvice(p)
        \/ AdviceCacheSetLoad(p)
        \/ SaveOpen(p)
        \/ SaveDump(p)
        \/ SaveReplace(p)
        \/ Merge(p)

SpecRace == InitRace /\ [][NextRace]_vars

-----------------------------------------------------------------------------
(* Properties *)

(* The passes an invocation has behind it *)
AfterReminders(p) == inv[p].pc \notin {"idle", "reminders", "raised"}
AfterLowStock(p) == inv[p].pc \notin {"idle", "reminders", "low_stock", "raised"}

Count(seq, Test(_)) == Cardinality({i \in 1..Len(seq) : Test(seq[i])})

WellFormed(m) == m.shape = "dict" /\ m.schedule.type # "badtype"

(* C1: whatever single item of the input is malformed (bad date text, missing
   or wrongly typed field), get_notifications does not raise. *)
C1_NeverRaises == \A p \in Threads : inv[p].pc # "raised"

(* C2: a projected dose event gets a reminder iff now <= start <= now + 30
   minutes, both ends included, and then exactly one; no reminder is for
   anything else. *)
C2_ReminderIffInWindow ==
    \A p \in Threads : AfterReminders(p) =>
        LET c == inv[p]
        IN /\ \A i \in 1..Len(c.doseEvents) :
                LET ev == c.doseEvents[i]
                    s == ev.start.date_time.v
                    IsFor(n) == n.metadata.eventId = ev.id /\ n.due_at = s
                                  /\ n.category = "reminder"
                IN Count(c.reminders, IsFor) =
                     IF c.now <= s /\ s <= c.now + 30 THEN 1 ELSE 0
           /\ \A j \in 1..Len(c.reminders) :
                \E i \in 1..Len(c.doseEvents) :
                    c.reminders[j].metadata.eventId = c.doseEvents[i].id

(* A dose exactly 30 minutes ahead is reminded of *)
C2_Witness ==
    \E p \in Threads :
        /\ inv[p].pc = "done"
        /\ \E j \in 1..Len(inv[p].out) :
              inv[p].out[j].category = "reminder"
                /\ inv[p].out[j].due_at = inv[p].now + 30

(* C3: a medication gets a low_stock notification iff its estimated days_left
   satisfies 0 < days_left <= 7, and then exactly one. *)
C3_LowStockIffWithinWeek ==
    \A p \in Threads : AfterLowStock(p) =>
        LET c == inv[p]
        IN \A i \in 1..Len(store) :
              LET d == c.estimates[i].days_left
                  name == TitleOf(store[i])
                  IsFor(n) == n.metadata.medicationName = name
                                /\ n.metadata.daysLeft = d /\ n.category = "low_stock"
              IN Count(c.low_stock, IsFor) =
                   IF ~c.estimates[i].raised /\ 0 < d /\ d <= 7 THEN 1 ELSE 0

(* A medication with exactly 7 days left is reported *)
C3_Witness ==
    \E p \in Threads :
        /\ inv[p].pc = "done"
        /\ inv[p].estimates[1].days_left = 7
        /\ \E j \in 1..Len(inv[p].out) : inv[p].out[j].category = "low_stock"

(* C4: the list get_notifications returns is non-decreasing in due_at (and
   holds every notification of the three passes). *)
C4_SortedByDueAt ==
    \A p \in Threads : inv[p].pc = "done" =>
        LET out == inv[p].out
        IN /\ \A i, j \in 1..Len(out) : i < j => out[i].due_at <= out[j].due_at
           /\ Len(out) = Len(inv[p].reminders) + Len(inv[p].low_stock)
                           + Len(inv[p].event_soon)

(* The three passes together are out of order before the sort *)
C4_Witness ==
    \E p \in Threads :
        /\ inv[p].pc = "done"
        /\ inv[p].reminders # <<>> /\ inv[p].event_soon # <<>>
        /\ LET all_items == inv[p].reminders \o inv[p].low_stock \o inv[p].event_soon
           IN \E i \in 1..(Len(all_items) - 1) :
                 all_items[i].due_at > all_items[i + 1].due_at

NoDoseToday(p) ==
    \A i \in 1..Len(inv[p].doseEvents) :
        DateOf(inv[p].doseEvents[i].start.date_time.v) # DateOf(inv[p].now)

(* C5: with no dose event on the date of now, the event-conflict pass yields
   no event_soon notification and touches neither the calendar cache nor the
   calendar service. *)
C5_NoDoseTodayNoCalendar ==
    \A p \in Threads :
        (inv[p].pc \in {"merge", "done"} /\ NoDoseToday(p)) =>
            /\ inv[p].event_soon = <<>>
            /\ inv[p].calCalls = 0
            /\ \A j \in 1..Len(inv[p].out) : inv[p].out[j].category # "event_soon"

(* Medications on file, none of them due today, and an event within 8 hours *)
C5_Witness ==
    \E p \in Threads :
        /\ inv[p].pc = "done"
        /\ inv[p].doseEvents # <<>>
        /\ NoDoseToday(p)
        /\ \E i \in 1..Len(liveEvents) : liveEvents[i] = Gym

(* C6: a medication with quantity_left <= 0 gets no dose event (stated for the
   records the projector does not raise on). *)
C6_NoEventsWhenOutOfStock ==
    \A p \in Threads : AfterReminders(p) =>
        \A i \in 1..Len(store) :
            (WellFormed(store[i]) /\ store[i].quantity_left.k = "num"
               /\ store[i].quantity_left.v <= 0)
            => inv[p].doseEvents = <<>>

(* C7: the number of dose events of a medication is
   floor(quantity_left / max(1, dose_per_intake)), the count _intakes_left
   gives (stated for records with at least one whole intake in stock). *)
C7_OccurrencesEqualIntakesLeft ==
    \A p \in Threads : AfterReminders(p) =>
        LET m == store[1]
            q == m.quantity_left.v
            d == m.dose_per_intake.v
        IN (m.quantity_left.k = "num" /\ m.dose_per_intake.k = "num" /\ d >= 1 /\ q >= d)
           => /\ Len(inv[p].doseEvents) = q \div d
              /\ Len(inv[p].doseEvents) = _intakes_left(m.quantity_left, m.dose_per_intake)

(* C8: days_left is the smallest integer not below
   intakes_remaining / per_day_rate and runout_date is the base date plus
   days_left days, at 08:00.  A schedule that lists no time counts one. *)
C8_DaysLeftIsCeiling ==
    \A p \in Threads : AfterLowStock(p) =>
        \A i \in 1..Len(store) :
            LET m == store[i]
                e == inv[p].estimates[i]
                n == _intakes_left(m.quantity_left, m.dose_per_intake)
                listed == IF Len(m.schedule.times) = 0 THEN 1 ELSE Len(m.schedule.times)
                num == IF m.schedule.type \in {"daily", "weekly"} THEN listed ELSE 1
                den == IF m.schedule.type = "weekly" THEN 7 ELSE 1
            IN ~e.raised =>
                 /\ ~e.none
                 /\ e.days_left * num >= n * den
                 /\ (e.days_left - 1) * num < n * den
                 /\ e.runout_date = (DateOf(inv[p].now) + e.days_left) * 1440 + 8 * 60

(* Three intakes at two a day: a day and a half, counted as 2 days *)
C8_Witness ==
    \E p \in Threads :
        /\ inv[p].pc = "done"
        /\ store[1].schedule.type = "daily" /\ Len(store[1].schedule.times) = 2
        /\ _intakes_left(store[1].quantity_left, store[1].dose_per_intake) = 3
        /\ inv[p].estimates[1].days_left = 2

(* C9 as stated: of two advice computations run one after the other on the
   same event id, start, title, description, recent medications, model and
   endpoint, both derive the same key and the second takes its advice from
   the cache, without a call of the collaborator. *)
C9_SecondComputationHitsCache ==
    \A i, j \in 1..Len(adviceLog) :
        (i < j /\ adviceLog[i].context = adviceLog[j].context)
        => /\ adviceLog[i].key = adviceLog[j].key
           /\ adviceLog[j].src = "cache"

(* C9, amended: both derive the same key, and the second takes the advice
   from the cache when the first one had an advice: one it stored in the
   cache file, or one it took from there. *)
C9_SecondHitsCacheWhenFirstHadAdvice ==
    \A i, j \in 1..Len(adviceLog) :
        (i < j /\ adviceLog[i].context = adviceLog[j].context)
        => /\ adviceLog[i].key = adviceLog[j].key
           /\ (adviceLog[i].stored \/ adviceLog[i].src = "cache")
                => /\ adviceLog[j].src = "cache"
                   /\ adviceLog[j].advice = adviceLog[i].advice

(* Two polls a quarter of an hour apart, the second served from the cache *)
C9_Witness ==
    \E i, j \in 1..Len(adviceLog) :
        /\ i < j
        /\ adviceLog[i].context = adviceLog[j].context
        /\ adviceLog[i].at < adviceLog[j].at
        /\ adviceLog[i].src = "llm" /\ adviceLog[i].stored
        /\ adviceLog[j].src = "cache"
        /\ llmCalls[adviceLog[j].key] = 1

(* C10 as stated: the collaborator is called at most once per advice-cache
   key, whatever fails and however the invocations overlap. *)
C10_AtMostOneCallPerKey ==
    \A k \in DOMAIN llmCalls : llmCalls[k] <= 1

CallsInFlight(k) ==
    Cardinality({p \in Threads : inv[p].pc \in {"adv_set_load", "adv_set_save"}
                                   /\ inv[p].cur.key = k})

CallsLogged(k) ==
    Cardinality({i \in 1..Len(adviceLog) : adviceLog[i].key = k
                                             /\ adviceLog[i].src = "llm"})

(* C10, amended: an advice computation calls the collaborator at most once,
   and only after its own look-up found the cache file without an advice for
   the key; a computation served from the cache makes no call. *)
C10_OneCallPerMissedLookup ==
    /\ \A k \in DOMAIN llmCalls : llmCalls[k] = CallsLogged(k) + CallsInFlight(k)
    /\ \A i \in 1..Len(adviceLog) : adviceLog[i].src = "llm" => adviceLog[i].seen = ""
    /\ \A p \in Threads :
          inv[p].pc \in {"llm", "adv_set_load", "adv_set_save"} => inv[p].cur.seen = ""

(* Two overlapping invocations, both past a missed look-up of the same key *)
C10_Witness ==
    \E k \in DOMAIN llmCalls :
        /\ llmCalls[k] = 2
        /\ \A p \in Threads : inv[p].pc = "done"
        /\ \A i \in 1..Len(adviceLog) :
              adviceLog[i].key = k => adviceLog[i].src = "llm" /\ adviceLog[i].stored

(* C11: two advice computations whose prompt inputs differ (title, description
   text sent, start, medication names, model, endpoint used) have different
   advice-cache keys. *)
C11_DistinctPromptsDistinctKeys ==
    \A i, j \in 1..Len(adviceLog) :
        PromptInputs(adviceLog[i].context) # PromptInputs(adviceLog[j].context)
        => adviceLog[i].key # adviceLog[j].key

(* The calendar events of the pass that lie before position idx and qualify
   for a notification: same date as now, start within the next 8 hours *)
QualifyingDone(p) ==
    {i \in 1..Min(inv[p].idx - 1, Len(inv[p].events)) :
        LET ev == inv[p].events[i]
        IN /\ ev.start.k = "dict" /\ ev.start.date_time.k = "iso"
           /\ ev.start.date_time.v \div 1440 = inv[p].now \div 1440
           /\ inv[p].now <= ev.start.date_time.v
           /\ ev.start.date_time.v <= inv[p].now + 8 * 60}

EndsWith(text, suffix) ==
    /\ Len(text) >= Len(suffix)
    /\ SubSeq(text, Len(text) - Len(suffix) + 1, Len(text)) = suffix

(* C12: every qualifying calendar event gets its event_soon notification,
   whether or not an advice was obtained; without advice the message is the
   base message, with no advice suffix; and the returned list holds every
   reminder, low_stock and event_soon notification of the invocation. *)
C12_AdviceFailureKeepsNotification ==
    \A p \in Threads :
        LET c == inv[p]
            OfCategory(items, cat) == {i \in 1..Len(items) : items[i].category = cat}
        IN /\ Len(c.event_soon) = Cardinality(QualifyingDone(p))
           /\ \A i \in 1..Len(c.event_soon) :
                 LET n == c.event_soon[i]
                     meds_text == IF n.metadata.recentMeds = <<>> THEN "no recent meds"
                                  ELSE Join(n.metadata.recentMeds, ", ")
                 IN n.metadata.advice = ""
                    => EndsWith(n.message, "Recent meds (<=12h): " \o meds_text \o ".")
           /\ c.pc = "done" =>
                 /\ Cardinality(OfCategory(c.out, "reminder")) = Len(c.reminders)
                 /\ Cardinality(OfCategory(c.out, "low_stock")) = Len(c.low_stock)
                 /\ Cardinality(OfCategory(c.out, "event_soon")) = Len(c.event_soon)

(* An invocation whose advice generation failed returns the event's
   notification without advice, next to a reminder and a low-stock notice *)
C12_Witness ==
    \E p \in Threads :
        /\ inv[p].pc = "done"
        /\ \E i \in 1..Len(adviceLog), j \in 1..Len(inv[p].out) :
              /\ adviceLog[i].src = "llm" /\ adviceLog[i].advice = ""
              /\ adviceLog[i].by = p /\ i = Len(adviceLog)
              /\ inv[p].out[j].category = "event_soon"
              /\ inv[p].out[j].metadata.advice = ""
              /\ inv[p].out[j].metadata.adviceKey = adviceLog[i].key
        /\ \E j \in 1..Len(inv[p].out) : inv[p].out[j].category = "reminder"
        /\ \E j \in 1..Len(inv[p].out) : inv[p].out[j].category = "low_stock"

(* C13: every advice an advice computation ends with, and every advice held
   by the advice cache, is at most 200 characters long. *)
C13_AdviceAtMost200Chars ==
    /\ \A i \in 1..Len(adviceLog) : Len(adviceLog[i].advice) <= 200
    /\ \A k \in DOMAIN adviceCache : Len(adviceCache[k]) <= 200

(* The single medication of the scenario: Aspirin 100mg, 2 left, 1 per intake,
   daily at 08:00, started today (day 1), polled at 07:45 *)
AspirinScenario(p) ==
    /\ store = <<[shape |-> "dict", drug_name |-> "Aspirin", strength |-> "100mg",
                  quantity_left |-> [k |-> "num", v |-> 2],
                  dose_per_intake |-> [k |-> "num", v |-> 1],
                  schedule |-> [type |-> "daily", times |-> <<[k |-> "hhmm", hh |-> 8]>>,
                                time |-> [k |-> "missing", hh |-> 0]],
                  start_date |-> [k |-> "num", v |-> 1]]>>
    /\ inv[p].pc = "done"
    /\ inv[p].now = 1440 + 7 * 60 + 45

(* C14: in the scenario get_notifications returns exactly one reminder, for
   the 08:00 dose, and exactly one low_stock notification, which names
   "Aspirin 100mg" and has days_left 2. *)
C14_AspirinScenario ==
    \A p \in Threads : AspirinScenario(p) =>
        LET out == inv[p].out
            rem == {i \in 1..Len(out) : out[i].category = "reminder"}
            low == {i \in 1..Len(out) : out[i].category = "low_stock"}
        IN /\ Cardinality(rem) = 1
           /\ \A i \in rem : /\ out[i].due_at = 1440 + 8 * 60
                              /\ out[i].metadata.medicationName = "Aspirin 100mg"
           /\ Cardinality(low) = 1
           /\ \A i \in low :
                 /\ out[i].message = "You will run out of Aspirin 100mg in 2 days."
                 /\ out[i].metadata.daysLeft = 2

(* The scenario has been run to its end *)
C14_Witness ==
    \E p \in Threads :
        /\ AspirinScenario(p)
        /\ Len(inv[p].out) >= 2
        /\ liveEvents = <<>>

(* C15: an addition that matches a row of the user by name and strength
   increments that row and creates none, so a user's list never holds two
   rows with the same name and strength *)
C15_NoTwoRowsSameNameStrength ==
    \A i, j \in 1..Len(store) :
        i # j => _normalize_name(store[i]) # _normalize_name(store[j])

(* C16: no store operation deletes a medication record: after a call, every
   row of every user is still at its place with its name and strength, also
   when the read of the file failed *)
C16_RowsAreKept ==
    [][/\ Len(store') >= Len(store)
       /\ \A i \in 1..Len(store) : _normalize_name(store'[i]) = _normalize_name(store[i])
       /\ Len(storeOthers') >= Len(storeOthers)
       /\ \A i \in 1..Len(storeOthers) : storeOthers'[i] = storeOthers[i]]_vars

(* C17: a step of a get_notifications invocation leaves the medication store
   as it was, for every user; what it writes is the advice cache and the
   calendar-event cache *)
C17_InvocationKeepsStore ==
    [][inv' # inv => store' = store /\ storeOthers' = storeOthers]_vars

(* An invocation over a store with rows has ended after writing both caches *)
C17_Witness ==
    \E p \in Threads :
        /\ inv[p].pc = "done"
        /\ store # <<>>
        /\ calCache # EmptyDict
        /\ adviceCache # EmptyDict

(* C18: while a cache file is damaged, a get of the advice cache misses and a
   get of the event cache gives no events, neither raising; the next set that
   the file system carries out leaves a readable file that holds the entry *)
C18_DamagedCacheReadsEmptyAndIsRebuilt ==
    [][\A p \in Threads :
         inv'[p] # inv[p] =>
           /\ (inv[p].pc = "adv_get" /\ ~fs.adviceValid) => inv'[p].pc = "llm"
           /\ (inv[p].pc = "cal_cache" /\ ~fs.calValid) => inv'[p].pc = "cal_live"
           /\ (inv[p].pc = "cal_set_save") =>
                 /\ fs'.calValid
                 /\ get_events(_load_cache(fs', calCache'), envCalendarId) = inv[p].live
           /\ (inv[p].pc = "adv_set_save" /\ adviceLog'[Len(adviceLog')].stored) =>
                 /\ fs'.adviceValid
                 /\ _advice_cache_get(_load_advice_cache(fs', adviceCache'), inv[p].cur.key)
                      = inv[p].cur.advice]_vars

(* The advice file held an entry, was damaged, read as empty and written
   again with the entry; the event file is readable as well *)
C18_Witness ==
    \E i, j \in 1..Len(adviceLog) :
        /\ i < j
        /\ adviceLog[i].key = adviceLog[j].key
        /\ adviceLog[i].stored
        /\ adviceLog[j].src = "llm" /\ adviceLog[j].seen = "" /\ adviceLog[j].stored
        /\ fs = CleanFs
        /\ adviceLog[j].key \in DOMAIN adviceCache
        /\ calCache # EmptyDict

(* C19: a reader of a cache file never finds it partially written: whenever
   a thread is about to read the advice file or the event file, the file
   holds a complete document *)
C19_ReaderSeesCompleteFile ==
    \A p \in Threads :
        /\ inv[p].pc \in {"adv_get", "adv_set_load"} => fs.adviceValid
        /\ inv[p].pc \in {"cal_cache", "cal_set_load"} => fs.calValid

(* C20: every invocation returns, also when the calendar service or the
   advice model never answers: an invocation that has not ended can always
   take its next step *)
C20_InvocationNeverBlocks ==
    \A p \in Threads :
        inv[p].pc \notin {"idle", "done", "raised"} => ENABLED Invocation(p)

(* C21: with two requests writing the medication store at the same time, a
   reader finds a complete document whenever it reads, and once both have
   written the file holds the complete document of one of them *)
C21_StoreHoldsOneCompleteDocument ==
    /\ \A p \in Threads :
          inv[p].pc \in {"reminders", "low_stock", "event_gate"} => fs.storeValid
    /\ (\A p \in Threads : fs.req[p].pc = "written") =>
          /\ fs.storeValid
          /\ \E p \in Threads : store = fs.req[p].doc /\ storeOthers = fs.req[p].others

(* C22: given a dose event today, the pass emits exactly one event_soon
   notification for each calendar event of its list that starts on the date
   of now and within [now, now + 8h], both ends included, and none for any
   other event *)
C22_OneEventSoonPerEventInWindow ==
    \A p \in Threads :
        (inv[p].pc = "done" /\ HasMedToday(inv[p].doseEvents, inv[p].now)) =>
            LET c == inv[p]
                StartOf(i) == c.events[i].start.date_time.v
                InWindow(i) == /\ StartOf(i) \div 1440 = c.now \div 1440
                               /\ c.now <= StartOf(i) /\ StartOf(i) <= c.now + 8 * 60
                For(i) == {j \in 1..Len(c.event_soon) : c.event_soon[j].due_at = StartOf(i)}
            IN /\ \A i \in 1..Len(c.events) :
                     Cardinality(For(i)) = IF InWindow(i) THEN 1 ELSE 0
               /\ \A j \in 1..Len(c.event_soon) :
                     /\ c.event_soon[j].category = "event_soon"
                     /\ \E i \in 1..Len(c.events) : j \in For(i)
               /\ \A j \in 1..Len(c.event_soon) : \E k \in 1..Len(c.out) :
                     c.out[k] = c.event_soon[j]

(* A pass over an event that starts exactly 8 hours after now and one that
   starts a minute later: the first is notified, the second is not *)
C22_Witness ==
    \E p \in Threads :
        /\ inv[p].pc = "done"
        /\ Len(inv[p].events) = 2
        /\ inv[p].events[1].start.date_time.v = inv[p].now + 480
        /\ inv[p].events[2].start.date_time.v = inv[p].now + 481
        /\ Len(inv[p].event_soon) = 1
        /\ inv[p].event_soon[1].due_at = inv[p].now + 480

(* C23: the recent-medication list in the metadata and in the message of an
   event_soon notification is the sorted duplicate-free list of the titles
   of the projected dose events that start in (event start - 12h, event
   start]: a dose exactly 12 hours before is left out, a dose exactly at the
   event start is in *)
C23_RecentMedsAreTheDosesOfTheLast12Hours ==
    \A p \in Threads :
        inv[p].pc = "done" =>
            \A j \in 1..Len(inv[p].event_soon) :
                LET n == inv[p].event_soon[j]
                    doses == inv[p].doseEvents
                    Recent(x) == \E k \in 1..Len(doses) :
                                    /\ doses[k].title = x
                                    /\ n.due_at - 12 * 60 < doses[k].start.date_time.v
                                    /\ doses[k].start.date_time.v <= n.due_at
                    expected == SelectSeq(AlphaOrder, Recent)
                    ev == CalEvent("dict", "", n.metadata.eventTitle, NoDescription,
                                   StartAt(n.due_at))
                IN /\ n.metadata.recentMeds = expected
                   /\ n.message = EventSoonOf(ev, n.due_at, inv[p].now, expected,
                                              n.metadata.advice, "").message

(* An event with a dose exactly 12 hours before its start, which is left
   out of its list *)
C23_Witness ==
    \E p \in Threads :
        /\ inv[p].pc = "done"
        /\ \E j \in 1..Len(inv[p].event_soon) : \E k \in 1..Len(inv[p].doseEvents) :
              /\ inv[p].doseEvents[k].start.date_time.v
                    = inv[p].event_soon[j].due_at - 12 * 60
              /\ inv[p].event_soon[j].metadata.recentMeds = <<>>

(* C24: the i-th dose event projected for a medication starts at its start
   date (today when the record has none that parses), at the anchor hour,
   plus i times the step, and ends exactly 10 minutes later; the anchor is
   the first listed time and the step 24h for a daily schedule, the listed
   time and 168h for a weekly one *)
C24_OccurrencesAreAnchorPlusSteps ==
    \A p \in Threads : AfterReminders(p) =>
        LET m == store[1]
            sch == m.schedule
            daily == sch.type = "daily" /\ Len(sch.times) > 0 /\ sch.times[1].k = "hhmm"
            weekly == sch.type = "weekly" /\ sch.time.k = "hhmm"
            anchor == IF daily THEN sch.times[1].hh ELSE sch.time.hh
            step == IF daily THEN 24 ELSE 168
            day == IF m.start_date.k = "num" THEN m.start_date.v
                   ELSE inv[p].now \div 1440
            ev == inv[p].doseEvents
        IN (daily \/ weekly) =>
              /\ Len(ev) >= 1
              /\ \A i \in 0..(Len(ev) - 1) :
                    /\ ev[i + 1].start.date_time.v
                          = day * 1440 + anchor * 60 + i * step * 60
                    /\ ev[i + 1].end.date_time.v = ev[i + 1].start.date_time.v + 10

(* A weekly medication taken at 14:00, whose list of times starts with
   08:00, projected three times *)
C24_Witness ==
    \E p \in Threads :
        /\ AfterReminders(p)
        /\ store[1].schedule.type = "weekly"
        /\ store[1].schedule.time = HHMM(14)
        /\ store[1].schedule.times # <<>>
        /\ Len(inv[p].doseEvents) = 3
        /\ inv[p].doseEvents[3].start.date_time.v
              = AtHour(store[1].start_date.v, 14) + 2 * 168 * 60

(* C25: a medication whose schedule is missing, of the wrong shape, or of an
   unrecognized or as_needed type is projected with anchor 08:00 and step
   24h, and the projector does not raise: once the reminder pass has run,
   every medication of the batch has its dose events *)
C25_BadScheduleFallsBackToDefault ==
    \A p \in Threads :
        inv[p].pc \notin {"idle", "reminders"} =>
            \A i \in 1..Len(store) :
                LET m == store[i]
                    mine == SelectSeq(inv[p].doseEvents,
                                      LAMBDA e : e.title = TitleOf(m))
                IN /\ mine # <<>>
                   /\ m.schedule.type \notin {"daily", "weekly"} =>
                         \A k \in 1..Len(mine) :
                             mine[k].start.date_time.v
                                = AtHour(IF m.start_date.k = "num" THEN m.start_date.v
                                         ELSE inv[p].now \div 1440, 8)
                                  + (k - 1) * 24 * 60

(* C26: _load_calendar_events is a read-through cache.  With a non-empty
   list cached under the calendar id it returns that list and makes no live
   fetch; with none it makes one live fetch; a list the fetch returns is
   stored under the calendar id before it is returned; when the fetch fails
   the result is empty and the cache is as it was *)
C26_ReadThroughCache ==
    [][\A p \in Threads :
          LET c == inv[p]
              d == inv'[p]
              cached == IF envCalendarId \in DOMAIN calCache
                        THEN calCache[envCalendarId] ELSE <<>>
          IN /\ (c.pc = "cal_cache" /\ d.pc # "cal_cache" /\ envCalendarId # "") =>
                   /\ calCache' = calCache
                   /\ IF cached # <<>>
                      THEN d.pc = "event_loop" /\ d.events = cached
                      ELSE d.pc = "cal_live"
             /\ (d.pc = "cal_live" /\ c.pc # "cal_live") => c.pc = "cal_cache"
             /\ (d.pc = "cal_cache" /\ c.pc # "cal_cache") => c.pc = "event_gate"
             /\ (c.pc = "cal_live" /\ d.pc # "cal_live") =>
                   /\ calCache' = calCache
                   /\ \/ d.pc = "merge" /\ d.events = <<>> /\ d.event_soon = <<>>
                      \/ d.pc = "cal_set_load" /\ d.live = liveEvents
             /\ (c.pc = "cal_set_load" /\ d.pc # "cal_set_load") =>
                   calCache' = calCache /\ d.pc = "cal_set_save" /\ d.live = c.live
             /\ (c.pc = "cal_set_save" /\ d.pc # "cal_set_save") =>
                   /\ envCalendarId \in DOMAIN calCache'
                   /\ calCache'[envCalendarId] = c.live
                   /\ \A k \in DOMAIN calCache : k # envCalendarId =>
                         k \in DOMAIN calCache' /\ calCache'[k] = calCache[k]
                   /\ d.events = c.live
                   /\ d.pc = IF c.live = <<>> THEN "merge" ELSE "event_loop"
      ]_vars

(* A poll that took its events from the cache, filled by an earlier poll,
   with no call but the read of the cache *)
C26_Witness ==
    \E p \in Threads :
        /\ inv[p].pc = "event_loop"
        /\ inv[p].calCalls = 1
        /\ inv[p].runsLeft < MaxRuns - 1
        /\ inv[p].events # <<>>
        /\ envCalendarId \in DOMAIN calCache
        /\ calCache[envCalendarId] = inv[p].events

(* C27: no two notifications of one get_notifications result carry the same
   id, and no two dose events of one get_medication_events result carry the
   same id; stated for the medication lists in which no two rows have the
   same name and strength, two strengths of one drug name included *)
C27_IdsAreUnique ==
    \A p \in Threads :
        LET Unique(seq) == \A i, j \in 1..Len(seq) : i # j => seq[i].id # seq[j].id
            Distinct(meds) == \A i, j \in 1..Len(meds) :
                                 i # j => TitleOf(meds[i]) # TitleOf(meds[j])
        IN Distinct(store) => Unique(inv[p].out) /\ Unique(inv[p].doseEvents)

(* C28: the passes of one invocation are computed from the same medication
   list: the reminders and the low_stock notifications of a returned payload
   are those of one version of the store, even when a store request runs at
   the same time.  Stated for invocations all of whose reads found a complete
   document; the versions are the lists the invocation read, the lists the
   store requests wrote and the list in the store at the end *)
C28_PassesSeeOneStoreVersion ==
    \A p \in Threads :
        LET c == inv[p]
            versions == {c.reads[i].meds : i \in 1..Len(c.reads)}
                          \cup {fs.req[q].doc : q \in Threads} \cup {store}
        IN (c.pc = "done" /\ \A i \in 1..Len(c.reads) : c.reads[i].complete) =>
              \E v \in versions :
                  /\ c.reminders = _build_reminder_notifications(
                                      get_medication_events(v, DateOf(c.now)).events,
                                      c.now)
                  /\ c.low_stock = _build_low_stock_notifications(v, c.now)

(* C29: a set on one key of the advice cache file never removes the entry
   stored under another key, also when two sets run at the same time: every
   key the file holds before a step is in the file after it *)
C29_SetKeepsOtherKeys ==
    [][\A k \in DOMAIN adviceCache : k \in DOMAIN adviceCache']_vars

(* C30: no store operation, whatever quantity its caller supplies, lowers
   the quantity_left of an existing row: a row that a step leaves in its
   place, the same in everything but its quantity, has at least the quantity
   it had *)
C30_QuantityIsNeverLowered ==
    [][\A i \in 1..Len(store) :
          (/\ i <= Len(store')
           /\ store'[i] = [store[i] EXCEPT !.quantity_left = store'[i].quantity_left])
          => IntOrZero(store'[i].quantity_left) >= IntOrZero(store[i].quantity_left)]_vars

=============================================================================
